---- MODULE Spec2Model ----
(***************************************************************************)
(* Model of the computer-use-demo session orchestration layer:             *)
(*   computer_use_demo/streamlit.py   main (the orchestrator run), the     *)
(*                                    interruption healer, the callbacks   *)
(*   computer_use_demo/websocket.py   the realtime channel handler         *)
(*   main.py / email_utils.py         the mailbox poll loop                *)
(* The reasoning engine (sampling_loop) is an external collaborator: its   *)
(* steps are nondeterministic choices of the events it may deliver.        *)
(***************************************************************************)
EXTENDS Integers, Sequences, FiniteSets, TLC

(***************************************************************************)
(* Bounds of the model.                                                    *)
(***************************************************************************)
MaxCalls == 2
MaxEngineSteps == 3
MaxToolIds == 2
MaxHeals == 2
NumEmails == 2
MaxCycles == 2
MaxConns == 2
MaxFrames == 1
MaxMessages == 2
MaxThreads == 3
MaxResponses == 3
MaxClock == 2
MaxContexts == 2
MaxWakeups == 2
MaxLoopCycles == 2

VARIABLES
    \* ---- orchestrator (streamlit.py) ----
    pc,                       \* per invocation of main: where the coroutine is
    session_id,               \* per invocation: the uuid4 drawn at line 111
    state,                    \* per invocation: the local state dict
    result,                   \* per invocation: value returned / exception raised
    steps,                    \* per invocation: engine events delivered so far
                              \* (MaxEngineSteps caps their total)
    uuid_counter,             \* source of fresh uuid4 values
    messages_for_session_id,  \* module-level dict, streamlit.py line 83
    healer_saw,               \* per invocation: the flag maybe_add_interruption_blocks
                              \* read at line 120 and the blocks it returned
    \* ---- the healer applied to a session that persists across triggers ----
    hstate,                   \* the session's state dict
    hist,                     \* the applications so far: before, trigger, blocks, after
    \* ---- mailbox poll loop (main.py) ----
    mpc,                      \* where the poll loop is
    flags,                    \* the mailbox: per email its IMAP flags
    email_ids,                \* the ids the search of this cycle returned
    idx,                      \* position of the for loop in email_ids
    cycle,                    \* poll cycles started so far
    delivered_now,            \* whether send_email delivered the current reply
    mstat,                    \* per email: what has happened to it so far
    cyc,                      \* the current poll cycle and how the previous one ended
    inflight,                 \* the emails whose orchestrator run is in flight
    trace,                    \* the steps of the current cycle, in order
    \* ---- realtime channel (websocket.py) ----
    data,                     \* session_state.data: session id -> session record
    wpc,                      \* per connection: where its handler is
    path,                     \* per connection: the session id of its request path
    outbox,                   \* per connection: the frame handed to websocket.send
    received,                 \* per connection: the frames the subscriber got
    frames_read,              \* per connection: inbound frames the handler read
    wlog,                     \* per connection: what the handler printed
    at_connect,               \* per connection: what lines 15-21 found and did to the store
    msg_history,              \* per session: every value messages has had
    attach_log,               \* per session: the connections that executed line 17, in order
    \* ---- the session store (singleton_storage.py) ----
    instance,                 \* SingletonStorage._instance
    lock,                     \* SingletonStorage._lock: the thread that holds it
    heap,                     \* the SingletonStorage objects allocated so far
    tpc,                      \* per thread: where its SingletonStorage() call is
    ret,                      \* per thread: the object its call returned
    puts,                     \* the keys written into the data of a returned store
    \* ---- the engine-response callback of one run (streamlit.py) ----
    rpc,                      \* where the run is
    response_state,           \* state["responses"]
    now,                      \* the value datetime.now() returns
    error_files,              \* the error_*.md files in the storage directory
    rcalls,                   \* the invocations of the callback so far
    rlog,                     \* the levels of the records the callback logged
    \* ---- the event loop of the process (main.py, asyncio.run) ----
    ppc,                      \* where the coroutine main of main.py is
    blocked,                  \* the loop's thread is inside a blocking call
    hpc,                      \* per other coroutine of the loop: awaiting or ready
    handled,                  \* per other coroutine: the steps it has taken
    lcycles                   \* poll cycles ended so far

orchVars == <<pc, session_id, state, result, steps, uuid_counter,
              messages_for_session_id, healer_saw>>

healVars == <<hstate, hist>>

mailVars == <<mpc, flags, email_ids, idx, cycle, delivered_now, mstat, cyc,
              inflight, trace>>

wsVars == <<data, wpc, path, outbox, received, frames_read, wlog, at_connect,
            msg_history, attach_log>>

singVars == <<instance, lock, heap, tpc, ret, puts>>

respVars == <<rpc, response_state, now, error_files, rcalls, rlog>>

loopVars == <<ppc, blocked, hpc, handled, lcycles>>

vars == <<orchVars, healVars, mailVars, wsVars, singVars, respVars, loopVars>>

(***************************************************************************)
(* Python values.                                                          *)
(***************************************************************************)
None == "None"

EmptyDict == <<>>

\* d[k] = v on a dict
DictSet(d, k, v) == [x \in (DOMAIN d) \cup {k} |-> IF x = k THEN v ELSE d[x]]

INTERRUPT_TEXT == "(user stopped or interrupted and wrote the following)"
INTERRUPT_TOOL_ERROR == "human stopped or interrupted tool execution"

USER == "user"
BOT == "assistant"
TOOL == "tool"

BetaTextBlockParam(text) == [type |-> "text", text |-> text]

ToolUseBlock(id) == [type |-> "tool_use", id |-> id]

BetaToolResultBlockParam(tool_use_id) ==
    [tool_use_id |-> tool_use_id, type |-> "tool_result",
     content |-> INTERRUPT_TOOL_ERROR, is_error |-> TRUE]

ToolResult(output, error) == [output |-> output, error |-> error]

Message(role, content) == [role |-> role, content |-> content]

Last(seq) == seq[Len(seq)]

\* line 162-164: the ids of the tool_use blocks of a message's content, in order
RECURSIVE SelectIds(_)
SelectIds(content) ==
    IF content = <<>> THEN <<>>
    ELSE IF Head(content).type = "tool_use"
         THEN <<Head(content).id>> \o SelectIds(Tail(content))
         ELSE SelectIds(Tail(content))

Range(seq) == {seq[i] : i \in DOMAIN seq}

(***************************************************************************)
(* streamlit.py: setup_state, the healer, main's entry.                    *)
(***************************************************************************)
setup_state ==
    [messages |-> <<>>, responses |-> EmptyDict, tools |-> EmptyDict,
     in_sampling_loop |-> FALSE]

\* the loop of lines 165-174 over previous_tool_use_ids: the tools dict after it
RECURSIVE HealTools(_, _)
HealTools(tools, ids) ==
    IF ids = <<>> THEN tools
    ELSE HealTools(DictSet(tools, Head(ids), ToolResult(None, INTERRUPT_TOOL_ERROR)),
                   Tail(ids))

\* the loop of lines 165-174: the blocks appended to result
HealBlocks(ids) == [i \in DOMAIN ids |-> BetaToolResultBlockParam(ids[i])]

\* a healer that returns nothing when the last message holds no tool_use block
maybe_add_interruption_blocks_quiet(st) ==
    IF ~st.in_sampling_loop \/ SelectIds(Last(st.messages).content) = <<>>
    THEN [result |-> <<>>, state |-> st]
    ELSE LET ids == SelectIds(Last(st.messages).content)
         IN  [result |-> HealBlocks(ids) \o <<BetaTextBlockParam(INTERRUPT_TEXT)>>,
              state  |-> [st EXCEPT !.tools = HealTools(@, ids)]]

\* a healer that puts the annotation before the tool_result blocks
maybe_add_interruption_blocks_annotation_first(st) ==
    IF ~st.in_sampling_loop
    THEN [result |-> <<>>, state |-> st]
    ELSE LET ids == SelectIds(Last(st.messages).content)
         IN  [result |-> <<BetaTextBlockParam(INTERRUPT_TEXT)>> \o HealBlocks(ids),
              state  |-> [st EXCEPT !.tools = HealTools(@, ids)]]

\* maybe_add_interruption_blocks(state): the list it returns and the state it
\* leaves (it writes state["tools"])
maybe_add_interruption_blocks(st) ==
    IF ~st.in_sampling_loop
    THEN [result |-> <<>>, state |-> st]
    ELSE LET last_message == Last(st.messages)
             previous_tool_use_ids == SelectIds(last_message.content)
         IN  [result |-> HealBlocks(previous_tool_use_ids)
                           \o <<BetaTextBlockParam(INTERRUPT_TEXT)>>,
              state  |-> [st EXCEPT !.tools = HealTools(@, previous_tool_use_ids)]]

\* main, lines 116-124: the user message appended for the trigger
MainAppend(st, new_message) ==
    LET healed == maybe_add_interruption_blocks(st)
    IN  [healed.state EXCEPT !.messages =
            Append(@, Message(USER, healed.result
                                     \o <<BetaTextBlockParam(new_message)>>))]

\* track_sampling_loop, line 181: entering the with block
TrackEnter(st) == [st EXCEPT !.in_sampling_loop = TRUE]

\* track_sampling_loop, line 183: the code after the yield, run on normal exit
TrackExit(st) == [st EXCEPT !.in_sampling_loop = FALSE]

\* track_sampling_loop when the with body raises: the generator is resumed by
\* throw() at the yield of line 182, there is no try/finally around it, so
\* line 183 is not executed
TrackExitOnException(st) == st

(***************************************************************************)
(* streamlit.py: the callbacks handed to the engine.                       *)
(***************************************************************************)
\* a _render_message that logs a block of any type
render_message_accepts(message) == None

\* _render_message on a content block (a dict), lines 313-320: the exception
\* it raises, None when it returns
render_message_raises(message) ==
    IF message.type \in {"text", "tool_use"} THEN None
    ELSE "Exception: Unexpected response type"

\* _tool_output_callback, lines 254-255: line 254 stores the result, line 255
\* calls _render_message(Sender.TOOL, tool_output) with two positional
\* arguments where the signature of line 284 takes three, a TypeError
tool_output_callback(st, tool_output, tool_id) ==
    [state  |-> [st EXCEPT !.tools = DictSet(@, tool_id, tool_output)],
     raises |-> "TypeError: _render_message() missing 1 required positional argument"]

\* main, line 147: state["messages"][-1]["content"][0]["text"]
text_response(st) ==
    LET content == Last(st.messages).content
    IN  IF content = <<>> THEN [raises |-> "IndexError", value |-> None]
        ELSE IF content[1].type # "text"
             THEN [raises |-> "KeyError: text", value |-> None]
             ELSE [raises |-> None, value |-> content[1].text]

(***************************************************************************)
(* The orchestrator run: one invocation of streamlit.main per call id.     *)
(***************************************************************************)
Calls == 1..MaxCalls

Triggers == {"find a restaurant"}

\* a uuid4 that hands out the value it drew last once more
uuid4_repeated == IF uuid_counter = 0 THEN uuid_counter + 1 ELSE uuid_counter

\* uuid4(): a value no earlier call has drawn
uuid4 == uuid_counter + 1

\* content blocks the engine may produce; "thinking" stands for a block type
\* other than text and tool_use
EngineBlocks ==
    {BetaTextBlockParam("done"), BetaTextBlockParam(""), ToolUseBlock("t1"),
     [type |-> "thinking"]}

EngineToolOutputs == {ToolResult("ok", None)}

\* the engine events delivered so far to the invocations 1..n
RECURSIVE StepsUpTo(_)
StepsUpTo(n) == IF n = 0 THEN 0 ELSE steps[n] + StepsUpTo(n - 1)

TotalSteps == StepsUpTo(MaxCalls)

\* a main that goes on with the state dict of the first invocation
FreshState_shared(c) == IF c = 1 THEN setup_state ELSE state[1]

\* main, lines 113-114: state = {}; setup_state(state)
FreshState(c) == setup_state

InitOrch ==
    /\ healer_saw = [c \in Calls |-> [in_sampling_loop |-> FALSE, blocks |-> <<>>]]
    /\ pc = [c \in Calls |-> "new"]
    /\ session_id = [c \in Calls |-> 0]
    /\ state = [c \in Calls |-> setup_state]
    /\ result = [c \in Calls |-> None]
    /\ steps = [c \in Calls |-> 0]
    /\ uuid_counter = 0
    /\ messages_for_session_id = EmptyDict

\* main, lines 110-128, up to the await of sampling_loop
Call(c, new_message) ==
    /\ pc[c] = "new"
    /\ session_id' = [session_id EXCEPT ![c] = uuid4]
    /\ uuid_counter' = uuid4
    /\ state' = [state EXCEPT ![c] = TrackEnter(MainAppend(FreshState(c), new_message))]
    /\ healer_saw' = [healer_saw EXCEPT ![c] =
           [in_sampling_loop |-> FreshState(c).in_sampling_loop,
            blocks |-> maybe_add_interruption_blocks(FreshState(c)).result]]
    /\ pc' = [pc EXCEPT ![c] = "engine"]
    /\ UNCHANGED <<result, steps, messages_for_session_id>>
    /\ UNCHANGED <<healVars, mailVars, wsVars, singVars, respVars, loopVars>>

\* the engine appends an assistant message and hands its block to the output
\* callback, partial(_render_message, Sender.BOT, session_id)
EngineOutput(c, block) ==
    /\ pc[c] = "engine"
    /\ TotalSteps < MaxEngineSteps
    /\ steps' = [steps EXCEPT ![c] = @ + 1]
    /\ messages_for_session_id' = DictSet(messages_for_session_id, session_id[c], block)
    /\ LET st == [state[c] EXCEPT !.messages = Append(@, Message(BOT, <<block>>))]
           exc == render_message_raises(block)
       IN  IF exc = None
           THEN /\ state' = [state EXCEPT ![c] = st]
                /\ UNCHANGED <<pc, result>>
           ELSE /\ state' = [state EXCEPT ![c] = TrackExitOnException(st)]
                /\ pc' = [pc EXCEPT ![c] = "raised"]
                /\ result' = [result EXCEPT ![c] = exc]
    /\ UNCHANGED <<session_id, uuid_counter, healer_saw>>
    /\ UNCHANGED <<healVars, mailVars, wsVars, singVars, respVars, loopVars>>

\* the engine hands the output of a tool it ran to the tool-output callback,
\* partial(_tool_output_callback, tool_state=state["tools"])
EngineToolOutput(c, tool_id, tool_output) ==
    /\ pc[c] = "engine"
    /\ TotalSteps < MaxEngineSteps
    /\ tool_id \in Range(SelectIds(Last(state[c].messages).content))
    /\ steps' = [steps EXCEPT ![c] = @ + 1]
    /\ LET out == tool_output_callback(state[c], tool_output, tool_id)
       IN  /\ state' = [state EXCEPT ![c] = TrackExitOnException(out.state)]
           /\ pc' = [pc EXCEPT ![c] = "raised"]
           /\ result' = [result EXCEPT ![c] = out.raises]
    /\ UNCHANGED <<session_id, uuid_counter, messages_for_session_id, healer_saw>>
    /\ UNCHANGED <<healVars, mailVars, wsVars, singVars, respVars, loopVars>>

\* sampling_loop returns: main, lines 128 and 145-152
EngineReturn(c) ==
    /\ pc[c] = "engine"
    /\ LET st == TrackExit(state[c])
           txt == text_response(st)
       IN  /\ state' = [state EXCEPT ![c] = st]
           /\ IF txt.raises = None
              THEN /\ pc' = [pc EXCEPT ![c] = "returned"]
                   /\ result' = [result EXCEPT ![c] = txt.value]
              ELSE /\ pc' = [pc EXCEPT ![c] = "raised"]
                   /\ result' = [result EXCEPT ![c] = txt.raises]
    /\ UNCHANGED <<session_id, steps, uuid_counter, messages_for_session_id, healer_saw>>
    /\ UNCHANGED <<healVars, mailVars, wsVars, singVars, respVars, loopVars>>

\* sampling_loop itself fails with an exception
EngineRaise(c) ==
    /\ pc[c] = "engine"
    /\ state' = [state EXCEPT ![c] = TrackExitOnException(state[c])]
    /\ pc' = [pc EXCEPT ![c] = "raised"]
    /\ result' = [result EXCEPT ![c] = "EngineError"]
    /\ UNCHANGED <<session_id, steps, uuid_counter, messages_for_session_id, healer_saw>>
    /\ UNCHANGED <<healVars, mailVars, wsVars, singVars, respVars, loopVars>>

NextOrch ==
    \/ \E c \in Calls, m \in Triggers : Call(c, m)
    \/ \E c \in Calls, b \in EngineBlocks : EngineOutput(c, b)
    \/ \E c \in Calls, o \in EngineToolOutputs : EngineToolOutput(c, "t1", o)
    \/ \E c \in Calls : EngineReturn(c)
    \/ \E c \in Calls : EngineRaise(c)

(***************************************************************************)
(* The healer as a function of the session it is given: main's entry       *)
(* (lines 116-126) applied to a session state that outlives the trigger.   *)
(***************************************************************************)
ToolIdNames == <<"t1", "t2", "t3", "t4">>

HealToolIds == {ToolIdNames[i] : i \in 1..MaxToolIds}

HealTriggers == {"find a restaurant", "s1"}

\* the blocks an assistant message may hold; the engine gives every
\* tool_use block an id of its own
HealBlockSet == {BetaTextBlockParam("done")} \cup {ToolUseBlock(t) : t \in HealToolIds}

HealContents ==
    {content \in UNION {[1..n -> HealBlockSet] : n \in 1..Cardinality(HealBlockSet)} :
        \A i, j \in DOMAIN content : i # j => content[i] # content[j]}

\* a session whose last message is an assistant message with this content
HealInputsWith(content) ==
    {[messages |-> <<Message(USER, <<BetaTextBlockParam("find a restaurant")>>),
                     Message(BOT, content)>>,
      responses |-> EmptyDict,
      tools |-> [t \in answered |-> ToolResult("ok", None)],
      in_sampling_loop |-> f] :
        f \in BOOLEAN, answered \in SUBSET Range(SelectIds(content))}

\* sessions a run can leave behind: empty, or the first trigger followed or not
\* by an assistant message, with results stored for some of its tool uses
HealInputs ==
    {setup_state}
    \cup
    {[messages |-> <<Message(USER, <<BetaTextBlockParam("find a restaurant")>>)>>,
      responses |-> EmptyDict, tools |-> EmptyDict, in_sampling_loop |-> f] :
        f \in BOOLEAN}
    \cup
    UNION {HealInputsWith(content) : content \in HealContents}

IdleHeal ==
    /\ hstate = setup_state
    /\ hist = <<>>

InitHeal ==
    /\ hstate \in HealInputs
    /\ hist = <<>>

\* a trigger enters the session: main, lines 116-126
HealEnter(new_message) ==
    /\ Len(hist) < MaxHeals
    /\ LET healed == maybe_add_interruption_blocks(hstate)
           after == TrackEnter(MainAppend(hstate, new_message))
       IN  /\ hstate' = after
           /\ hist' = Append(hist, [before |-> hstate, new_message |-> new_message,
                                    blocks |-> healed.result, after |-> after])
    /\ UNCHANGED <<orchVars, mailVars, wsVars, singVars, respVars, loopVars>>

NextHeal == \E m \in HealTriggers : HealEnter(m)

(***************************************************************************)
(* main.py: the poll loop, main (lines 163-180) around read_emails (lines  *)
(* 74-161). email_utils.py holds the same steps split into                 *)
(* fetch_email_metadata, process_single_email and read_emails.             *)
(***************************************************************************)
Emails == 1..NumEmails

Seen == "\\Seen"

\* an is_read that never sees the flag
is_read_never(fl) == FALSE

\* an is_read that takes a flagged email for an unread one
is_read_inverted(fl) == Seen \notin fl

\* line 101: is_read = "\\Seen" in flags
is_read(fl) == Seen \in fl

\* a store that leaves the flags as they are
store_seen_dropped(fl) == fl

\* line 147: mail.store(num, "+FLAGS", "\\Seen") answered OK
store_seen(fl) == fl \cup {Seen}

NoStat ==
    [runs |-> 0, last_run |-> "none", replies |-> 0, ack |-> "none",
     skipped |-> FALSE, skipped_unread |-> FALSE,
     rerun_after_ok |-> FALSE, rerun_after_ack |-> FALSE]

\* the record of a poll cycle: whether the previous cycle was aborted and the
\* emails it left unread, the emails this cycle fetched and started a run for,
\* whether this cycle was aborted and whether that was printed
NoCycle ==
    [prev_aborted |-> FALSE, prev_unread |-> {}, fetched |-> {}, ran |-> {},
     aborted |-> FALSE, logged |-> FALSE]

Unread == {e \in Emails : ~is_read(flags[e])}

\* read_emails is entered again: main, line 179
NewCycle ==
    [prev_aborted |-> cyc.aborted, prev_unread |-> IF cyc.aborted THEN Unread ELSE {},
     fetched |-> {}, ran |-> {}, aborted |-> FALSE, logged |-> FALSE]

\* a step of the poll loop on an email: run, send (the reply), flag (Seen)
Step(e, step) == [email |-> e, step |-> step]

IdleMail ==
    /\ mpc = "idle"
    /\ flags = [e \in Emails |-> {}]
    /\ email_ids = <<>>
    /\ idx = 0
    /\ cycle = 0
    /\ delivered_now = FALSE
    /\ mstat = [e \in Emails |-> NoStat]
    /\ cyc = NoCycle
    /\ inflight = {}
    /\ trace = <<>>

\* the mailbox holds read and unread emails when the program starts
InitMail ==
    /\ mpc = "idle"
    /\ flags \in [Emails -> {{}, {Seen}}]
    /\ email_ids = <<>>
    /\ idx = 0
    /\ cycle = 0
    /\ delivered_now = FALSE
    /\ mstat = [e \in Emails |-> NoStat]
    /\ cyc = NoCycle
    /\ inflight = {}
    /\ trace = <<>>

current_email == email_ids[idx]

\* the for loop of line 97 moves to the next id, or read_emails returns
NextEmail ==
    IF idx < Len(email_ids)
    THEN /\ idx' = idx + 1
         /\ mpc' = "fetch"
    ELSE /\ idx' = idx
         /\ mpc' = "sleep"

\* an except that lets the exception leave read_emails and main
AbortCycle_exits ==
    /\ mpc' = "exited"
    /\ idx' = idx
    /\ cyc' = [cyc EXCEPT !.aborted = TRUE]

\* the except of lines 160-161: the error is printed, the cycle is abandoned,
\* read_emails returns
AbortCycle ==
    /\ mpc' = "sleep"
    /\ idx' = idx
    /\ cyc' = [cyc EXCEPT !.aborted = TRUE, !.logged = TRUE]

\* lines 79-95: login, select and search succeed
PollSearchOk ==
    /\ mpc = "idle"
    /\ cycle < MaxCycles
    /\ cycle' = cycle + 1
    /\ email_ids' = [i \in 1..NumEmails |-> i]
    /\ IF NumEmails = 0
       THEN idx' = 0 /\ mpc' = "sleep"
       ELSE idx' = 1 /\ mpc' = "fetch"
    /\ UNCHANGED <<flags, delivered_now, mstat>>
    /\ UNCHANGED <<orchVars, healVars, wsVars, singVars, respVars, loopVars>>
    /\ cyc' = NewCycle
    /\ trace' = <<>>
    /\ UNCHANGED inflight

\* lines 79-90: login, select or search raise, or search answers other than OK
PollSearchFails ==
    /\ mpc = "idle"
    /\ cycle < MaxCycles
    /\ cycle' = cycle + 1
    /\ mpc' = "sleep"
    /\ UNCHANGED <<flags, email_ids, idx, delivered_now, mstat>>
    /\ UNCHANGED <<orchVars, healVars, wsVars, singVars, respVars, loopVars>>
    /\ cyc' = [NewCycle EXCEPT !.aborted = TRUE, !.logged = TRUE]
    /\ trace' = <<>>
    /\ UNCHANGED inflight

\* a loop that starts the run of an unread email as a task of its own and goes
\* on to the next email without awaiting it
FetchEmail_spawns ==
    /\ mpc = "fetch"
    /\ NextEmail
    /\ LET e == current_email
       IN  IF ~is_read(flags[e])
           THEN /\ mstat' = [mstat EXCEPT ![e].runs = @ + 1]
                /\ inflight' = inflight \cup {e}
                /\ trace' = Append(trace, Step(e, "run"))
                /\ cyc' = [cyc EXCEPT !.fetched = @ \cup {e}, !.ran = @ \cup {e}]
           ELSE /\ mstat' = [mstat EXCEPT ![e].skipped = TRUE]
                /\ cyc' = [cyc EXCEPT !.fetched = @ \cup {e}]
                /\ UNCHANGED <<inflight, trace>>
    /\ UNCHANGED <<flags, email_ids, cycle, delivered_now>>
    /\ UNCHANGED <<orchVars, healVars, wsVars, singVars, respVars, loopVars>>

\* lines 98-126 and 155-158: the flags and the text of the email are fetched
FetchEmail ==
    /\ mpc = "fetch"
    /\ LET e == current_email
       IN  IF ~is_read(flags[e])
           THEN /\ mpc' = "run"
                /\ idx' = idx
                /\ mstat' = [mstat EXCEPT
                       ![e].runs = @ + 1,
                       ![e].rerun_after_ok = @ \/ mstat[e].last_run = "ok",
                       ![e].rerun_after_ack = @ \/ mstat[e].ack # "none"]
           ELSE /\ NextEmail
                /\ mstat' = [mstat EXCEPT
                       ![e].skipped = TRUE,
                       ![e].skipped_unread = @ \/ Seen \notin flags[e]]
    /\ UNCHANGED <<flags, email_ids, cycle, delivered_now>>
    /\ UNCHANGED <<orchVars, healVars, wsVars, singVars, respVars, loopVars>>
    /\ cyc' = [cyc EXCEPT !.fetched = @ \cup {current_email},
                       !.ran = IF is_read(flags[current_email]) THEN @
                              ELSE @ \cup {current_email}]
    /\ IF is_read(flags[current_email])
       THEN UNCHANGED <<inflight, trace>>
       ELSE /\ inflight' = inflight \cup {current_email}
            /\ trace' = Append(trace, Step(current_email, "run"))

\* lines 98-122: a fetch raises
FetchFails ==
    /\ mpc = "fetch"
    /\ AbortCycle
    /\ UNCHANGED <<flags, email_ids, cycle, delivered_now, mstat>>
    /\ UNCHANGED <<orchVars, healVars, wsVars, singVars, respVars, loopVars>>
    /\ UNCHANGED <<inflight, trace>>

\* lines 36-41: the prompt is prepared and the orchestrator run returns
RunReturns ==
    /\ mpc = "run"
    /\ mpc' = "summary"
    /\ mstat' = [mstat EXCEPT ![current_email].last_run = "ok"]
    /\ UNCHANGED <<flags, email_ids, idx, cycle, delivered_now>>
    /\ UNCHANGED <<orchVars, healVars, wsVars, singVars, respVars, loopVars>>
    /\ UNCHANGED cyc
    /\ inflight' = inflight \ {current_email}
    /\ UNCHANGED trace

\* lines 36-41: the orchestrator run (or the request preparing its prompt) raises
RunRaises ==
    /\ mpc = "run"
    /\ AbortCycle
    /\ mstat' = [mstat EXCEPT ![current_email].last_run = "failed"]
    /\ UNCHANGED <<flags, email_ids, cycle, delivered_now>>
    /\ UNCHANGED <<orchVars, healVars, wsVars, singVars, respVars, loopVars>>
    /\ inflight' = inflight \ {current_email}
    /\ UNCHANGED trace

\* lines 43-44: the summary of the results is written
SummaryReturns ==
    /\ mpc = "summary"
    /\ mpc' = "send"
    /\ UNCHANGED <<flags, email_ids, idx, cycle, delivered_now, mstat>>
    /\ UNCHANGED <<orchVars, healVars, wsVars, singVars, respVars, loopVars>>
    /\ UNCHANGED cyc
    /\ UNCHANGED <<inflight, trace>>

\* lines 43-44: the request for the summary raises
SummaryRaises ==
    /\ mpc = "summary"
    /\ AbortCycle
    /\ UNCHANGED <<flags, email_ids, cycle, delivered_now, mstat>>
    /\ UNCHANGED <<orchVars, healVars, wsVars, singVars, respVars, loopVars>>
    /\ UNCHANGED <<inflight, trace>>

\* send_email, lines 48-68: the reply is sent
SendDelivered ==
    /\ mpc = "send"
    /\ mpc' = "store"
    /\ delivered_now' = TRUE
    /\ mstat' = [mstat EXCEPT ![current_email].replies = @ + 1]
    /\ UNCHANGED <<flags, email_ids, idx, cycle>>
    /\ UNCHANGED <<orchVars, healVars, wsVars, singVars, respVars, loopVars>>
    /\ UNCHANGED cyc
    /\ trace' = Append(trace, Step(current_email, "send"))
    /\ UNCHANGED inflight

\* send_email, lines 70-71: the SMTP exchange raises, the except prints the
\* error and send_email returns as if it had sent
SendFails ==
    /\ mpc = "send"
    /\ mpc' = "store"
    /\ delivered_now' = FALSE
    /\ UNCHANGED <<flags, email_ids, idx, cycle, mstat>>
    /\ UNCHANGED <<orchVars, healVars, wsVars, singVars, respVars, loopVars>>
    /\ UNCHANGED cyc
    /\ trace' = Append(trace, Step(current_email, "send"))
    /\ UNCHANGED inflight

\* lines 147-151: the store of \Seen answers OK
StoreOk ==
    /\ mpc = "store"
    /\ flags' = [flags EXCEPT ![current_email] = store_seen(@)]
    /\ mstat' = [mstat EXCEPT ![current_email].ack =
                    IF delivered_now THEN "delivered" ELSE "undelivered"]
    /\ NextEmail
    /\ UNCHANGED <<email_ids, cycle, delivered_now>>
    /\ UNCHANGED <<orchVars, healVars, wsVars, singVars, respVars, loopVars>>
    /\ UNCHANGED cyc
    /\ trace' = Append(trace, Step(current_email, "flag"))
    /\ UNCHANGED inflight

\* lines 147-149: the store answers other than OK, which is only printed
StoreNotOk ==
    /\ mpc = "store"
    /\ NextEmail
    /\ UNCHANGED <<flags, email_ids, cycle, delivered_now, mstat>>
    /\ UNCHANGED <<orchVars, healVars, wsVars, singVars, respVars, loopVars>>
    /\ UNCHANGED cyc
    /\ trace' = Append(trace, Step(current_email, "flag"))
    /\ UNCHANGED inflight

\* line 147: the store raises
StoreRaises ==
    /\ mpc = "store"
    /\ AbortCycle
    /\ UNCHANGED <<flags, email_ids, cycle, delivered_now, mstat>>
    /\ UNCHANGED <<orchVars, healVars, wsVars, singVars, respVars, loopVars>>
    /\ UNCHANGED <<inflight, trace>>

\* main, line 180: time.sleep(60), then the next read_emails
Sleep ==
    /\ mpc = "sleep"
    /\ mpc' = "idle"
    /\ UNCHANGED <<flags, email_ids, idx, cycle, delivered_now, mstat>>
    /\ UNCHANGED <<orchVars, healVars, wsVars, singVars, respVars, loopVars>>
    /\ UNCHANGED cyc
    /\ UNCHANGED <<inflight, trace>>

NextMail ==
    \/ PollSearchOk
    \/ PollSearchFails
    \/ FetchEmail
    \/ FetchFails
    \/ RunReturns
    \/ RunRaises
    \/ SummaryReturns
    \/ SummaryRaises
    \/ SendDelivered
    \/ SendFails
    \/ StoreOk
    \/ StoreNotOk
    \/ StoreRaises
    \/ Sleep

(***************************************************************************)
(* websocket.py: the handler of one subscriber connection. The handler and *)
(* the orchestrator are coroutines of one event loop: the code between two *)
(* awaits is one step.                                                     *)
(***************************************************************************)
ConnNames == <<"ws1", "ws2", "ws3", "ws4">>

Conns == {ConnNames[i] : i \in 1..MaxConns}

\* no frame handed to websocket.send
NoFrame == <<>>

SessionIds == {"s1"}

PathIds == SessionIds \cup {"ghost"}

JsonBool(b) == IF b THEN "true" ELSE "false"

\* json.dumps of one content block
JsonBlock(b) ==
    CASE b.type = "text" -> <<"{", "type", "text", "text", b.text, "}">>
      [] b.type = "tool_use" -> <<"{", "type", "tool_use", "id", b.id, "}">>
      [] b.type = "tool_result" ->
            <<"{", "tool_use_id", b.tool_use_id, "type", "tool_result",
              "content", b.content, "is_error", JsonBool(b.is_error), "}">>
      [] OTHER -> <<"{", "type", b.type, "}">>

RECURSIVE JsonBlocks(_)
JsonBlocks(content) ==
    IF content = <<>> THEN <<>>
    ELSE JsonBlock(Head(content)) \o JsonBlocks(Tail(content))

\* json.dumps of one message
JsonMessage(m) ==
    <<"{", "role", m.role, "content", "[">> \o JsonBlocks(m.content) \o <<"]", "}">>

RECURSIVE JsonMessages(_)
JsonMessages(messages) ==
    IF messages = <<>> THEN <<>>
    ELSE JsonMessage(Head(messages)) \o JsonMessages(Tail(messages))

\* line 19: json.dumps(session_state.data[session_id]["messages"]), the text
\* as the sequence of its tokens
JsonDumps(messages) == <<"[">> \o JsonMessages(messages) \o <<"]">>

NOT_FOUND == "Session ID not found"

TERMINATED == "Terminated"

\* the transcript with the last block of its last message still missing
TornMessages(messages) ==
    IF messages = <<>> THEN messages
    ELSE [messages EXCEPT ![Len(messages)].content = SubSeq(@, 1, Len(@) - 1)]

\* a subscribe that dumps the transcript while its last message is half appended
handler_subscribe_torn(d, sid, conn) ==
    IF sid \in DOMAIN d
    THEN [data  |-> [d EXCEPT ![sid].ws = conn],
          frame |-> <<"[">> \o JsonMessages(TornMessages(d[sid].messages)) \o <<"]">>,
          log   |-> {}]
    ELSE [data |-> d, frame |-> NoFrame, log |-> {NOT_FOUND}]

\* a subscribe that makes an entry for an id it does not find
handler_subscribe_creates(d, sid, conn) ==
    IF sid \in DOMAIN d
    THEN [data  |-> [d EXCEPT ![sid].ws = conn],
          frame |-> JsonDumps(d[sid].messages),
          log   |-> {}]
    ELSE [data  |-> DictSet(d, sid, [messages |-> <<>>, ws |-> conn]),
          frame |-> NoFrame,
          log   |-> {NOT_FOUND}]

\* a subscribe that registers the connection and sends nothing
handler_subscribe_silent(d, sid, conn) ==
    IF sid \in DOMAIN d
    THEN [data |-> [d EXCEPT ![sid].ws = conn], frame |-> NoFrame, log |-> {}]
    ELSE [data |-> d, frame |-> NoFrame, log |-> {NOT_FOUND}]

\* a subscribe that keeps the reference of the first connection attached
handler_subscribe_first_wins(d, sid, conn) ==
    IF sid \in DOMAIN d
    THEN [data  |-> [d EXCEPT ![sid].ws = IF @ = None THEN conn ELSE @],
          frame |-> JsonDumps(d[sid].messages),
          log   |-> {}]
    ELSE [data |-> d, frame |-> NoFrame, log |-> {NOT_FOUND}]

\* handler, lines 15-21: the store it leaves, the frame it hands to
\* websocket.send (NoFrame when it sends nothing) and what it prints
handler_subscribe(d, sid, conn) ==
    IF sid \in DOMAIN d
    THEN [data  |-> [d EXCEPT ![sid].ws = conn],
          frame |-> JsonDumps(d[sid].messages),
          log   |-> {}]
    ELSE [data  |-> d,
          frame |-> NoFrame,
          log   |-> {NOT_FOUND}]

FirstMessage == Message(USER, <<BetaTextBlockParam("find a restaurant")>>)

\* messages a run adds to the transcript of its session
RunMessages ==
    {Message(BOT, <<BetaTextBlockParam("done"), ToolUseBlock("t1")>>)}

\* session_state.data is read by the handler; the sessions it holds are the
\* handler's input
InitWs ==
    /\ \E ids \in SUBSET SessionIds :
          data = [sid \in ids |-> [messages |-> <<FirstMessage>>, ws |-> None]]
    /\ wpc = [c \in Conns |-> "new"]
    /\ path = [c \in Conns |-> None]
    /\ outbox = [c \in Conns |-> NoFrame]
    /\ received = [c \in Conns |-> <<>>]
    /\ frames_read = [c \in Conns |-> 0]
    /\ wlog = [c \in Conns |-> {}]
    /\ at_connect = [c \in Conns |-> [found |-> FALSE, store_unchanged |-> TRUE, messages |-> <<>>]]
    /\ msg_history = [sid \in DOMAIN data |-> {data[sid].messages}]
    /\ attach_log = [sid \in DOMAIN data |-> <<>>]

\* handler, lines 11-21, up to the await of websocket.send (a found session)
\* or of websocket.recv (an unknown one)
Handler(conn, sid) ==
    /\ wpc[conn] = "new"
    /\ LET sub == handler_subscribe(data, sid, conn)
       IN  /\ data' = sub.data
           /\ outbox' = [outbox EXCEPT ![conn] = sub.frame]
           /\ wlog' = [wlog EXCEPT ![conn] = @ \cup sub.log]
           /\ wpc' = [wpc EXCEPT ![conn] = IF sub.frame = NoFrame THEN "recv" ELSE "sending"]
           /\ at_connect' = [at_connect EXCEPT ![conn] =
                  [found |-> sid \in DOMAIN data,
                   store_unchanged |-> sub.data = data,
                   messages |-> IF sid \in DOMAIN data THEN data[sid].messages ELSE <<>>]]
    /\ path' = [path EXCEPT ![conn] = sid]
    /\ attach_log' = IF sid \in DOMAIN data
                     THEN [attach_log EXCEPT ![sid] = Append(@, conn)]
                     ELSE attach_log
    /\ UNCHANGED <<received, frames_read, msg_history>>
    /\ UNCHANGED <<orchVars, healVars, mailVars, singVars, respVars, loopVars>>

\* line 19: the await of websocket.send completes, the subscriber has the frame
SendDone(conn) ==
    /\ wpc[conn] = "sending"
    /\ received' = [received EXCEPT ![conn] = Append(@, outbox[conn])]
    /\ outbox' = [outbox EXCEPT ![conn] = NoFrame]
    /\ wpc' = [wpc EXCEPT ![conn] = "recv"]
    /\ UNCHANGED <<data, path, frames_read, wlog, at_connect, msg_history, attach_log>>
    /\ UNCHANGED <<orchVars, healVars, mailVars, singVars, respVars, loopVars>>

\* line 19: websocket.send raises ConnectionClosed, outside any try
SendRaises(conn) ==
    /\ wpc[conn] = "sending"
    /\ outbox' = [outbox EXCEPT ![conn] = NoFrame]
    /\ wpc' = [wpc EXCEPT ![conn] = "failed"]
    /\ UNCHANGED <<data, path, received, frames_read, wlog, at_connect, msg_history, attach_log>>
    /\ UNCHANGED <<orchVars, healVars, mailVars, singVars, respVars, loopVars>>

\* lines 25-26: an inbound frame is read and printed
RecvFrame(conn) ==
    /\ wpc[conn] = "recv"
    /\ frames_read[conn] < MaxFrames
    /\ frames_read' = [frames_read EXCEPT ![conn] = @ + 1]
    /\ UNCHANGED <<data, wpc, path, outbox, received, wlog, at_connect, msg_history, attach_log>>
    /\ UNCHANGED <<orchVars, healVars, mailVars, singVars, respVars, loopVars>>

\* lines 27-29: websocket.recv raises ConnectionClosedOK, the loop ends
RecvClosedOK(conn) ==
    /\ wpc[conn] = "recv"
    /\ wlog' = [wlog EXCEPT ![conn] = @ \cup {TERMINATED}]
    /\ wpc' = [wpc EXCEPT ![conn] = "terminated"]
    /\ UNCHANGED <<data, path, outbox, received, frames_read, at_connect, msg_history, attach_log>>
    /\ UNCHANGED <<orchVars, healVars, mailVars, singVars, respVars, loopVars>>

\* line 25: websocket.recv raises ConnectionClosedError, which line 27 does
\* not catch
RecvClosedError(conn) ==
    /\ wpc[conn] = "recv"
    /\ wpc' = [wpc EXCEPT ![conn] = "failed"]
    /\ UNCHANGED <<data, path, outbox, received, frames_read, wlog, at_connect, msg_history, attach_log>>
    /\ UNCHANGED <<orchVars, healVars, mailVars, singVars, respVars, loopVars>>

\* a run of the orchestrator appends a message to the transcript of a stored
\* session
OrchestratorAppend(sid, m) ==
    /\ sid \in DOMAIN data
    /\ Len(data[sid].messages) < MaxMessages
    /\ data' = [data EXCEPT ![sid].messages = Append(@, m)]
    /\ msg_history' = [msg_history EXCEPT ![sid] = @ \cup {data'[sid].messages}]
    /\ UNCHANGED <<wpc, path, outbox, received, frames_read, wlog, at_connect, attach_log>>
    /\ UNCHANGED <<orchVars, healVars, mailVars, singVars, respVars, loopVars>>

NextWs ==
    \/ \E c \in Conns, sid \in PathIds : Handler(c, sid)
    \/ \E c \in Conns : SendDone(c)
    \/ \E c \in Conns : SendRaises(c)
    \/ \E c \in Conns : RecvFrame(c)
    \/ \E c \in Conns : RecvClosedOK(c)
    \/ \E c \in Conns : RecvClosedError(c)
    \/ \E sid \in SessionIds, m \in RunMessages : OrchestratorAppend(sid, m)

IdleWs ==
    /\ data = EmptyDict
    /\ wpc = <<>>
    /\ path = <<>>
    /\ outbox = <<>>
    /\ received = <<>>
    /\ frames_read = <<>>
    /\ wlog = <<>>
    /\ at_connect = <<>>
    /\ msg_history = <<>>
    /\ attach_log = <<>>

(***************************************************************************)
(* singleton_storage.py: SingletonStorage.__new__, called by the threads   *)
(* of one process. A thread is preempted between any two of its steps.     *)
(***************************************************************************)
Threads == 1..MaxThreads

\* line 4: _instance = None; the objects of heap are numbered from 1
NoInstance == 0

\* nobody holds the lock
Unlocked == 0

\* the keys a user of the store may write into its data
StoreKeys == {"s1", "s2"}

\* a lock that lets every thread in
lock_always_free(lk) == TRUE

\* line 8: with cls._lock can be entered
lock_free(lk) == lk = Unlocked

\* line 9: cls._instance is None
instance_missing(inst) == inst = NoInstance

InitSing ==
    /\ instance = NoInstance
    /\ lock = Unlocked
    /\ heap = <<>>
    /\ tpc = [t \in Threads |-> "start"]
    /\ ret = [t \in Threads |-> NoInstance]
    /\ puts = {}

\* line 8: the lock is acquired
Acquire(t) ==
    /\ tpc[t] = "start"
    /\ lock_free(lock)
    /\ lock' = t
    /\ tpc' = [tpc EXCEPT ![t] = "check"]
    /\ UNCHANGED <<instance, heap, ret, puts>>
    /\ UNCHANGED <<orchVars, healVars, mailVars, wsVars, respVars, loopVars>>

\* line 9: the test of cls._instance
Check(t) ==
    /\ tpc[t] = "check"
    /\ tpc' = [tpc EXCEPT ![t] = IF instance_missing(instance) THEN "create" ELSE "release"]
    /\ UNCHANGED <<instance, lock, heap, ret, puts>>
    /\ UNCHANGED <<orchVars, healVars, mailVars, wsVars, respVars, loopVars>>

\* line 10: cls._instance = super().__new__(cls), an object with no data yet
Create(t) ==
    /\ tpc[t] = "create"
    /\ heap' = Append(heap, [has_data |-> FALSE, data |-> {}])
    /\ instance' = Len(heap) + 1
    /\ tpc' = [tpc EXCEPT ![t] = "init"]
    /\ UNCHANGED <<lock, ret, puts>>
    /\ UNCHANGED <<orchVars, healVars, mailVars, wsVars, respVars, loopVars>>

\* line 11: cls._instance.data = {}
InitData(t) ==
    /\ tpc[t] = "init"
    /\ heap' = [heap EXCEPT ![instance] = [has_data |-> TRUE, data |-> {}]]
    /\ tpc' = [tpc EXCEPT ![t] = "release"]
    /\ UNCHANGED <<instance, lock, ret, puts>>
    /\ UNCHANGED <<orchVars, healVars, mailVars, wsVars, respVars, loopVars>>

\* the end of the with block of line 8: the lock is released
Release(t) ==
    /\ tpc[t] = "release"
    /\ lock' = IF lock = t THEN Unlocked ELSE lock
    /\ tpc' = [tpc EXCEPT ![t] = "return"]
    /\ UNCHANGED <<instance, heap, ret, puts>>
    /\ UNCHANGED <<orchVars, healVars, mailVars, wsVars, respVars, loopVars>>

\* line 12: return cls._instance
Return(t) ==
    /\ tpc[t] = "return"
    /\ ret' = [ret EXCEPT ![t] = instance]
    /\ tpc' = [tpc EXCEPT ![t] = "done"]
    /\ UNCHANGED <<instance, lock, heap, puts>>
    /\ UNCHANGED <<orchVars, healVars, mailVars, wsVars, respVars, loopVars>>

\* a thread that holds a store puts a session into its data
StorePut(t, k) ==
    /\ tpc[t] = "done"
    /\ heap[ret[t]].has_data
    /\ k \notin puts
    /\ heap' = [heap EXCEPT ![ret[t]].data = @ \cup {k}]
    /\ puts' = puts \cup {k}
    /\ UNCHANGED <<instance, lock, tpc, ret>>
    /\ UNCHANGED <<orchVars, healVars, mailVars, wsVars, respVars, loopVars>>

NextSing ==
    \/ \E t \in Threads : Acquire(t)
    \/ \E t \in Threads : Check(t)
    \/ \E t \in Threads : Create(t)
    \/ \E t \in Threads : InitData(t)
    \/ \E t \in Threads : Release(t)
    \/ \E t \in Threads : Return(t)
    \/ \E t \in Threads, k \in StoreKeys : StorePut(t, k)

IdleSing ==
    /\ instance = NoInstance
    /\ lock = Unlocked
    /\ heap = <<>>
    /\ tpc = <<>>
    /\ ret = <<>>
    /\ puts = {}

IdleResp ==
    /\ rpc = "idle"
    /\ response_state = EmptyDict
    /\ now = 0
    /\ error_files = {}
    /\ rcalls = 0
    /\ rlog = <<>>

(***************************************************************************)
(* streamlit.py: the engine-response callback of one run,                  *)
(* partial(_api_response_callback, response_state=state["responses"]).     *)
(* The callback is synchronous: one invocation is one step.                *)
(***************************************************************************)
\* the errors the engine hands to the callback; NoError stands for error=None
NoError == [class |-> "None", retry_after |-> None]

RateLimitError(retry_after) == [class |-> "RateLimitError", retry_after |-> retry_after]

APIStatusError == [class |-> "APIStatusError", retry_after |-> None]

\* values of the retry-after header of a rate-limit response: absent, a number
\* of seconds, a number with a fraction
RetryAfterValues == {None, "30", "1.5"}

EngineErrors ==
    {NoError, APIStatusError} \cup {RateLimitError(v) : v \in RetryAfterValues}

\* the strings int() accepts among the header values
IntLiterals == {"30"}

\* line 243: datetime.now().isoformat(), one text per clock value
isoformat(t) == <<"iso", t>>

\* line 280: f"error_{datetime.now().timestamp()}.md"
error_file_name(t) == <<"error_", t, ".md">>

\* _render_error, lines 269-281: the exception it raises (None when it
\* returns), the file save_to_storage writes and the record it logs
render_error(error, t) ==
    IF /\ error.class = "RateLimitError"
       /\ error.retry_after # None
       /\ error.retry_after \notin IntLiterals
    THEN [raises |-> "ValueError: invalid literal for int()",
          files |-> {}, logged |-> <<>>]
    ELSE [raises |-> None,
          files |-> {[name |-> error_file_name(t), class |-> error.class]},
          logged |-> <<"error">>]

\* _api_response_callback, lines 243-247: response_state after it, the
\* exception it raises, the files written and the records logged
api_response_callback(rs, request, response, error, t) ==
    LET response_id == isoformat(t)
        stored == DictSet(rs, response_id, [request |-> request, response |-> response])
        rendered == IF error # NoError THEN render_error(error, t)
                    ELSE [raises |-> None, files |-> {}, logged |-> <<>>]
    IN  [response_state |-> stored,
         raises |-> rendered.raises,
         files  |-> rendered.files,
         logged |-> IF rendered.raises = None
                    THEN rendered.logged \o <<"info">>
                    ELSE rendered.logged]

InitResp ==
    /\ rpc = "engine"
    /\ response_state = EmptyDict
    /\ now = 0
    /\ error_files = {}
    /\ rcalls = 0
    /\ rlog = <<>>

\* time passes between two reads of the clock
ClockTick ==
    /\ now < MaxClock
    /\ now' = now + 1
    /\ UNCHANGED <<rpc, response_state, error_files, rcalls, rlog>>
    /\ UNCHANGED <<orchVars, healVars, mailVars, wsVars, singVars, loopVars>>

\* the engine hands a request with its response or error to the callback; an
\* exception of the callback ends the run
ApiResponse(error) ==
    /\ rpc = "engine"
    /\ rcalls < MaxResponses
    /\ rcalls' = rcalls + 1
    /\ LET out == api_response_callback(response_state, rcalls + 1,
                      IF error = NoError THEN "ok" ELSE None, error, now)
       IN  /\ response_state' = out.response_state
           /\ error_files' = error_files \cup out.files
           /\ rlog' = Append(rlog, [request |-> rcalls + 1,
                                    error |-> error.class,
                                    raises |-> out.raises,
                                    persisted |-> out.files # {},
                                    logged |-> out.logged])
           /\ rpc' = IF out.raises = None THEN rpc ELSE "raised"
    /\ UNCHANGED now
    /\ UNCHANGED <<orchVars, healVars, mailVars, wsVars, singVars, loopVars>>

\* sampling_loop returns
RespEngineReturn ==
    /\ rpc = "engine"
    /\ rpc' = "returned"
    /\ UNCHANGED <<response_state, now, error_files, rcalls, rlog>>
    /\ UNCHANGED <<orchVars, healVars, mailVars, wsVars, singVars, loopVars>>

NextResp ==
    \/ ClockTick
    \/ \E error \in EngineErrors : ApiResponse(error)
    \/ RespEngineReturn

(***************************************************************************)
(* main.py: the event loop started by asyncio.run(main()), line 184. The   *)
(* loop has one thread: a coroutine runs on it from one await to the next, *)
(* and a call that does not await keeps the thread until it returns.       *)
(***************************************************************************)
\* the other coroutines of the loop: subscriber handlers, other runs
Contexts == 1..MaxContexts

\* a coroutine of the loop that is ready can be given the thread
CanStep(h) == hpc[h] = "ready" /\ ~blocked

InitLoop ==
    /\ ppc = "start"
    /\ blocked = FALSE
    /\ hpc = [h \in Contexts |-> "awaiting"]
    /\ handled = [h \in Contexts |-> 0]
    /\ lcycles = 0

\* main, line 179: read_emails runs up to an await of its own (the run of an
\* email), giving the thread back
PollAwaits ==
    /\ ppc = "start"
    /\ ~blocked
    /\ lcycles < MaxLoopCycles
    /\ ppc' = "awaiting"
    /\ UNCHANGED <<blocked, hpc, handled, lcycles>>
    /\ UNCHANGED <<orchVars, healVars, mailVars, wsVars, singVars, respVars>>

\* main, lines 179-180: read_emails returns and main calls time.sleep(60),
\* which does not await: the thread stays inside it
PollSleeps ==
    /\ ppc \in {"start", "awaiting"}
    /\ ~blocked
    /\ lcycles < MaxLoopCycles
    /\ ppc' = "sleeping"
    /\ blocked' = TRUE
    /\ UNCHANGED <<hpc, handled, lcycles>>
    /\ UNCHANGED <<orchVars, healVars, mailVars, wsVars, singVars, respVars>>

\* main, line 180: time.sleep(60) returns, the while loop goes round
PollWakes ==
    /\ ppc = "sleeping"
    /\ ppc' = "start"
    /\ blocked' = FALSE
    /\ lcycles' = lcycles + 1
    /\ UNCHANGED <<hpc, handled>>
    /\ UNCHANGED <<orchVars, healVars, mailVars, wsVars, singVars, respVars>>

\* what a coroutine awaits arrives (a frame of its subscriber, the answer of
\* the engine): the coroutine is ready
Wakeup(h) ==
    /\ hpc[h] = "awaiting"
    /\ handled[h] < MaxWakeups
    /\ hpc' = [hpc EXCEPT ![h] = "ready"]
    /\ UNCHANGED <<ppc, blocked, handled, lcycles>>
    /\ UNCHANGED <<orchVars, healVars, mailVars, wsVars, singVars, respVars>>

\* a ready coroutine is given the thread and runs to its next await
\* (websocket.py, lines 25-26)
ContextStep(h) ==
    /\ CanStep(h)
    /\ hpc' = [hpc EXCEPT ![h] = "awaiting"]
    /\ handled' = [handled EXCEPT ![h] = @ + 1]
    /\ UNCHANGED <<ppc, blocked, lcycles>>
    /\ UNCHANGED <<orchVars, healVars, mailVars, wsVars, singVars, respVars>>

NextLoop ==
    \/ PollAwaits
    \/ PollSleeps
    \/ PollWakes
    \/ \E h \in Contexts : Wakeup(h)
    \/ \E h \in Contexts : ContextStep(h)

IdleLoop ==
    /\ ppc = "idle"
    /\ blocked = FALSE
    /\ hpc = <<>>
    /\ handled = <<>>
    /\ lcycles = 0

(***************************************************************************)
(* The specifications.                                                     *)
(***************************************************************************)
Init == InitOrch /\ IdleHeal /\ IdleMail /\ IdleWs /\ IdleSing /\ IdleResp /\ IdleLoop

Next == NextOrch

Spec == Init /\ [][Next]_vars

InitHealSpec == InitOrch /\ InitHeal /\ IdleMail /\ IdleWs /\ IdleSing /\ IdleResp /\ IdleLoop

SpecHeal == InitHealSpec /\ [][NextHeal]_vars

InitMailSpec == InitOrch /\ IdleHeal /\ InitMail /\ IdleWs /\ IdleSing /\ IdleResp /\ IdleLoop

SpecMail == InitMailSpec /\ [][NextMail]_vars

\* time.sleep(60) of line 180 returns
SpecMailLive == InitMailSpec /\ [][NextMail]_vars /\ WF_vars(Sleep)

InitWsSpec == InitOrch /\ IdleHeal /\ IdleMail /\ InitWs /\ IdleSing /\ IdleResp /\ IdleLoop

SpecWs == InitWsSpec /\ [][NextWs]_vars

InitSingSpec == InitOrch /\ IdleHeal /\ IdleMail /\ IdleWs /\ InitSing /\ IdleResp /\ IdleLoop

SpecSing == InitSingSpec /\ [][NextSing]_vars

InitRespSpec == InitOrch /\ IdleHeal /\ IdleMail /\ IdleWs /\ IdleSing /\ InitResp /\ IdleLoop

SpecResp == InitRespSpec /\ [][NextResp]_vars

InitLoopSpec ==
    InitOrch /\ IdleHeal /\ IdleMail /\ IdleWs /\ IdleSing /\ IdleResp /\ InitLoop

SpecLoop == InitLoopSpec /\ [][NextLoop]_vars

(***************************************************************************)
(* Claims about the orchestrator run, checked under Spec.                  *)
(***************************************************************************)
Exited(c) == pc[c] \in {"returned", "raised"}

InFlight(c) == pc[c] = "engine"

\* C1: the active-run flag is released on every exit path of run: once run has
\* exited, by returning or by an exception, in_sampling_loop is false.
C1_FlagReleasedOnEveryExit ==
    \A c \in Calls : Exited(c) => ~state[c].in_sampling_loop

UnexpectedContentType == "Exception: Unexpected response type"

\* the positions of the assistant messages of a run's transcript
BotMessages(c) == {i \in DOMAIN state[c].messages : state[c].messages[i].role = BOT}

\* the assistant messages whose block is neither text nor tool_use
Malformed(c) ==
    {i \in BotMessages(c) : state[c].messages[i].content[1].type \notin {"text", "tool_use"}}

\* C15: when the output callback receives a block whose type is neither text
\* nor tool-invocation the run fails with the UnexpectedContentType fault,
\* which propagates out of run; a text or tool-invocation block never raises
\* this fault.
C15_UnexpectedBlockTypeFails ==
    \A c \in Calls :
        /\ \A i \in Malformed(c) :
              /\ i = Len(state[c].messages)
              /\ pc[c] = "raised"
              /\ result[c] = UnexpectedContentType
        /\ result[c] = UnexpectedContentType => Malformed(c) # {}

\* C15 witness: a run delivered a text block without a fault and then failed
\* on a block of another type
C15_Witness ==
    \E c \in Calls :
        /\ pc[c] = "raised"
        /\ result[c] = UnexpectedContentType
        /\ Cardinality(BotMessages(c)) = 2
        /\ Cardinality(Malformed(c)) = 1

\* C16: run returns the text content of the final message of the transcript;
\* when that text is empty run signals EmptyResult instead of returning a
\* value to its caller.
C16_EmptyResultSignalled ==
    \A c \in Calls :
        pc[c] = "returned" =>
            /\ result[c] = Last(state[c].messages).content[1].text
            /\ result[c] # ""

\* C19: every invocation of the tool-output callback stores the ToolResult
\* under its invocation id and completes without raising, so that the run
\* continues after a tool output.
C19_ToolOutputCallbackCompletes ==
    \A c \in Calls :
        \A id \in DOMAIN state[c].tools :
            /\ state[c].tools[id] \in EngineToolOutputs
            /\ ~(pc[c] = "raised" /\ result[c] # UnexpectedContentType /\ result[c] # "EngineError")

\* C22: in the program as written run builds a fresh session state and a
\* fresh session id on every invocation: whatever the sequence and
\* interleaving of run calls, the active-run flag is false when the healer is
\* consulted, maybe_add_interruption_blocks returns no blocks, and the
\* transcript of the run starts with a user message holding the trigger text
\* alone.
C22_HealerBranchUnreachable ==
    \A c \in Calls :
        pc[c] # "new" =>
            /\ ~healer_saw[c].in_sampling_loop
            /\ healer_saw[c].blocks = <<>>
            /\ state[c].messages[1].role = USER
            /\ state[c].messages[1].content \in {<<BetaTextBlockParam(m)>> : m \in Triggers}
            /\ \A c2 \in Calls : (c2 # c /\ pc[c2] # "new") => session_id[c2] # session_id[c]

\* C22 witness: a run was called while an earlier run was in flight, and a run
\* was called after an earlier one had failed and left its flag set
C22_Witness ==
    \E c1, c2 \in Calls :
        /\ session_id[c1] # 0 /\ session_id[c1] < session_id[c2]
        /\ state[c1].in_sampling_loop
        /\ pc[c1] = "raised"
        /\ pc[c2] = "engine"
        /\ steps[c2] > 0

(***************************************************************************)
(* Claims about the healer, checked under SpecHeal.                        *)
(***************************************************************************)
InterruptResult == ToolResult(None, INTERRUPT_TOOL_ERROR)

Annotation == BetaTextBlockParam(INTERRUPT_TEXT)

\* the application entered the session with the active-run flag set
Healing(h) == h.before.in_sampling_loop

LastToolUseIds(st) == SelectIds(Last(st.messages).content)

\* tool-invocation ids of the last message with no entry in toolResults
Unanswered(st) == {id \in Range(LastToolUseIds(st)) : id \notin DOMAIN st.tools}

\* ids whose ToolResult the application replaced by the synthesized error
Synthesized(h) ==
    {id \in DOMAIN h.after.tools :
        /\ h.after.tools[id] = InterruptResult
        /\ id \in DOMAIN h.before.tools => h.before.tools[id] # InterruptResult}

ToolResultBlocks(blocks) == {i \in DOMAIN blocks : blocks[i].type = "tool_result"}

\* C3: healing completeness: a session entered with the flag set and N
\* unanswered tool-invocation ids in its last message gets exactly N
\* synthesized error ToolResults (and N tool-result blocks), and the healing
\* blocks end with the interruption annotation.
C3_HealingCompleteness ==
    \A i \in DOMAIN hist :
        Healing(hist[i]) =>
            /\ Cardinality(Synthesized(hist[i])) = Cardinality(Unanswered(hist[i].before))
            /\ Cardinality(ToolResultBlocks(hist[i].blocks))
                  = Cardinality(Unanswered(hist[i].before))
            /\ Last(hist[i].blocks) = Annotation

\* C4 as stated: healing is idempotent: right after a healing application a
\* second one is a no-op, it adds no block to the transcript and leaves
\* toolResults as they are.
C4_IdempotentHealing ==
    \A i \in DOMAIN hist :
        (i > 1 /\ Healing(hist[i - 1])) =>
            /\ hist[i].blocks = <<>>
            /\ hist[i].after.tools = hist[i].before.tools

\* C4 as amended: right after a healing application a second one leaves
\* toolResults unchanged and emits no tool-result block, but it emits the
\* interruption annotation again: the transcript grows by one user message
\* holding the annotation and the new trigger text.
C4_SecondHealingOnlyAnnotates ==
    \A i \in DOMAIN hist :
        (i > 1 /\ Healing(hist[i - 1])) =>
            /\ hist[i].blocks = <<Annotation>>
            /\ hist[i].after.tools = hist[i].before.tools
            /\ hist[i].after.messages =
                  Append(hist[i].before.messages,
                         Message(USER, <<Annotation,
                                         BetaTextBlockParam(hist[i].new_message)>>))

\* C4 witness: a session with tool uses in its last message was healed, and
\* healed again
C4_Witness ==
    /\ Len(hist) >= 2
    /\ Healing(hist[1])
    /\ ToolResultBlocks(hist[1].blocks) # {}

\* C5 as stated: the user message appended for a trigger that finds the flag
\* set begins with the annotation, followed by the trigger text.
C5_MessageBeginsWithAnnotation ==
    \A i \in DOMAIN hist :
        Healing(hist[i]) =>
            LET content == Last(hist[i].after.messages).content
            IN  /\ Len(content) >= 2
                /\ content[1] = Annotation
                /\ content[2] = BetaTextBlockParam(hist[i].new_message)

\* C5 as amended: the user message appended for a trigger that finds the flag
\* set ends with the annotation followed by the trigger text; before the
\* annotation it holds one error tool-result block per tool-invocation block
\* of the previous last message, in their order, so it begins with the
\* annotation exactly when that message holds no tool invocation.
C5_AnnotationThenTrigger ==
    \A i \in DOMAIN hist :
        Healing(hist[i]) =>
            LET content == Last(hist[i].after.messages).content
                ids == LastToolUseIds(hist[i].before)
                n == Len(content)
            IN  /\ Last(hist[i].after.messages).role = USER
                /\ n = Len(ids) + 2
                /\ content[n] = BetaTextBlockParam(hist[i].new_message)
                /\ content[n - 1] = Annotation
                /\ \A k \in 1..Len(ids) :
                      /\ content[k].type = "tool_result"
                      /\ content[k].tool_use_id = ids[k]
                      /\ content[k].is_error
                /\ (content[1] = Annotation) <=> (ids = <<>>)

\* C5 witness: a trigger finds the flag set and tool invocations in the last
\* message
C5_Witness ==
    \E i \in DOMAIN hist :
        /\ Healing(hist[i])
        /\ LastToolUseIds(hist[i].before) # <<>>
        /\ Len(Last(hist[i].after.messages).content) >= 3

(***************************************************************************)
(* Claims about the poll loop, checked under SpecMail.                     *)
(***************************************************************************)
\* C6 as stated: after a failed run the email is still unread and a later
\* cycle processes it again; after a successful run the email is never
\* processed again.
C6_AtLeastOnceDelivery ==
    \A e \in Emails :
        /\ mstat[e].last_run = "failed" => Seen \notin flags[e]
        /\ ~mstat[e].skipped_unread
        /\ ~mstat[e].rerun_after_ok

\* C6 as amended: after a failed run the email is still unread, and every
\* poll cycle that fetches an unread email starts a run for it; an email is
\* never processed again once the store of its Seen flag was answered OK;
\* while that has not happened (the summary request or the store failed
\* after a successful run) the email stays unread.
C6_ProcessedUntilFlagStored ==
    \A e \in Emails :
        /\ mstat[e].last_run = "failed" => Seen \notin flags[e]
        /\ ~mstat[e].skipped_unread
        /\ ~mstat[e].rerun_after_ack
        /\ mstat[e].ack # "none" => Seen \in flags[e]
        /\ (mstat[e].runs > 0 /\ mstat[e].ack = "none") => Seen \notin flags[e]

\* C6 witness: an email was processed a second time after its first run, and
\* then acknowledged
C6_Witness ==
    \E e \in Emails :
        /\ mstat[e].runs >= 2
        /\ mstat[e].ack # "none"
        /\ Seen \in flags[e]

\* C7: an email is flagged Seen by the poll loop only when the reply of that
\* round trip was delivered by send_email.
C7_SeenOnlyAfterDelivery ==
    \A e \in Emails : mstat[e].ack # "undelivered"

C23_SeenEmailSkipped ==
    /\ [](\A e \in cyc.fetched \ cyc.ran :
             /\ Seen \in flags[e]
             /\ e \notin inflight
             /\ \A k \in DOMAIN trace : trace[k].email # e
             /\ mpc \in {"run", "summary", "send", "store"} => current_email # e)
    /\ [][\A e \in Emails :
             /\ (e \in cyc'.ran /\ e \notin cyc.ran) => Seen \notin flags[e]
             /\ (e \in cyc'.fetched /\ e \notin cyc'.ran) =>
                   /\ flags'[e] = flags[e]
                   /\ mstat'[e].runs = mstat[e].runs
                   /\ mstat'[e].replies = mstat[e].replies]_vars

\* C23 witness: an email answered and flagged in an earlier cycle is fetched
\* and skipped in a cycle that runs another email
C23_Witness ==
    \E e1, e2 \in Emails :
        /\ e1 \in cyc.fetched /\ e1 \notin cyc.ran
        /\ mstat[e1].ack # "none" /\ mstat[e1].skipped
        /\ e2 \in cyc.ran

\* C24: the poll loop processes triggers strictly one after another: for
\* every email the order is run, send reply, flag Seen; the run of the next
\* email starts only after the three steps of the previous one have ended;
\* at most one run started by the poll loop is in flight at any instant.
C24_OneTriggerAtATime ==
    /\ Cardinality(inflight) <= 1
    /\ inflight # {} => (mpc = "run" /\ inflight = {current_email})
    /\ \A k \in DOMAIN trace :
          CASE trace[k].step = "run" ->
                   k > 1 => /\ trace[k - 1].step = "flag"
                            /\ trace[k - 1].email # trace[k].email
            [] trace[k].step = "send" ->
                   k > 1 /\ trace[k - 1] = Step(trace[k].email, "run")
            [] trace[k].step = "flag" ->
                   k > 1 /\ trace[k - 1] = Step(trace[k].email, "send")

\* C24 witness: the run of a second email is in flight after the first email
\* of the cycle went through run, send and flag
C24_Witness ==
    /\ Len(trace) = 4
    /\ mpc = "run"
    /\ inflight = {trace[4].email}
    /\ trace[1].email # trace[4].email

\* C18: healing synthesizes an error ToolResult only for tool-invocation ids
\* of the last message that have no entry in toolResults: every entry that
\* existed before healing is left unchanged and no tool-result block is
\* emitted for an id that was already answered.
C18_HealsOnlyUnanswered ==
    \A i \in DOMAIN hist :
        Healing(hist[i]) =>
            /\ \A id \in DOMAIN hist[i].before.tools :
                  hist[i].after.tools[id] = hist[i].before.tools[id]
            /\ \A k \in ToolResultBlocks(hist[i].blocks) :
                  hist[i].blocks[k].tool_use_id \in Unanswered(hist[i].before)

(***************************************************************************)
(* Claims about the realtime channel, checked under SpecWs.                *)
(***************************************************************************)
\* the dumps of every value the transcript of a session has had
Dumps(sid) == {JsonDumps(h) : h \in msg_history[sid]}

C9_UnknownSessionNotFound ==
    \A c \in Conns :
        (wpc[c] # "new" /\ ~at_connect[c].found) =>
            /\ NOT_FOUND \in wlog[c]
            /\ at_connect[c].store_unchanged
            /\ path[c] \notin DOMAIN data
            /\ \A sid \in DOMAIN data : data[sid].ws # c
            /\ outbox[c] = NoFrame
            /\ received[c] = <<>>

\* C9 witness: a connection was reported not found and sits in its receive
\* loop, and the server has served a snapshot of an existing session
C9_Witness ==
    \E c1, c2 \in Conns :
        /\ wpc[c1] = "recv" /\ ~at_connect[c1].found /\ path[c1] = "ghost"
        /\ at_connect[c2].found /\ Len(received[c2]) = 1

\* C10: a connection for an existing session is sent exactly one frame, the
\* JSON dump of the messages the session held when it subscribed, and the
\* handler reads no inbound frame before that frame is sent.
C10_OneSnapshotBeforeReading ==
    \A c \in Conns :
        at_connect[c].found =>
            /\ Len(received[c]) <= 1
            /\ wpc[c] = "sending" =>
                  /\ outbox[c] = JsonDumps(at_connect[c].messages)
                  /\ received[c] = <<>>
                  /\ frames_read[c] = 0
            /\ (wpc[c] \in {"recv", "terminated"} \/ frames_read[c] > 0) =>
                  received[c] = <<JsonDumps(at_connect[c].messages)>>

\* C10 witness: a subscriber of an existing session got its snapshot and the
\* handler then read a frame from it
C10_Witness ==
    \E c \in Conns :
        /\ at_connect[c].found
        /\ frames_read[c] > 0
        /\ Len(received[c]) = 1

\* C12: last attach wins: after any sequence of subscribes to one session id
\* the connection reference stored on the session is the one of the
\* subscriber that attached most recently (and none before the first attach).
C12_LastAttachWins ==
    \A sid \in DOMAIN data :
        IF attach_log[sid] = <<>>
        THEN data[sid].ws = None
        ELSE data[sid].ws = Last(attach_log[sid])

\* C12 witness: two subscribers attached to one session one after the other,
\* both got their snapshot, and the session references the second
C12_Witness ==
    \E sid \in DOMAIN data :
        /\ Len(attach_log[sid]) >= 2
        /\ attach_log[sid][1] # attach_log[sid][2]
        /\ \A i \in 1..2 : Len(received[attach_log[sid][i]]) = 1
        /\ data[sid].ws = attach_log[sid][2]

\* C13: when a subscriber closes its connection normally the handler ends
\* without error and the relay registration of that connection is removed:
\* no session references the closed connection.
C13_CloseRemovesRegistration ==
    \A c \in Conns :
        wpc[c] = "terminated" =>
            /\ TERMINATED \in wlog[c]
            /\ \A sid \in DOMAIN data : data[sid].ws # c

(***************************************************************************)
(* Claims about the session store, checked under SpecSing.                 *)
(***************************************************************************)
\* C11: the session store is created exactly once per process: every
\* SingletonStorage() construction, concurrent or sequential, returns the same
\* instance, one object is allocated, and its data map is initialised once and
\* never reset afterwards: what was put into it stays in it.
C11_StoreCreatedOnce ==
    /\ Len(heap) <= 1
    /\ \A t \in Threads : tpc[t] = "done" => (ret[t] = instance /\ ret[t] # NoInstance)
    /\ \A t1, t2 \in Threads : (tpc[t1] = "done" /\ tpc[t2] = "done") => ret[t1] = ret[t2]
    /\ \A t \in Threads : tpc[t] = "done" => heap[ret[t]].has_data
    /\ instance # NoInstance => puts \subseteq heap[instance].data

\* C11 witness: a session was put into the store and a later construction has
\* gone through the test of line 9 and returned that store with the session
\* still in it
C11_Witness ==
    \E t1, t2 \in Threads :
        /\ t1 # t2
        /\ tpc[t1] = "done" /\ tpc[t2] = "done"
        /\ Len(heap) = 1
        /\ ret[t1] = ret[t2]
        /\ puts = StoreKeys
        /\ heap[ret[t2]].data = StoreKeys

(***************************************************************************)
(* Claims about the engine-response callback, checked under SpecResp.      *)
(***************************************************************************)
\* C14: an engine transport or rate-limit error delivered through the
\* engine-response callback is recorded in engineResponses, persisted as an
\* error record and logged, and never makes the callback or the run fail.
C14_EngineErrorRecovered ==
    /\ rpc # "raised"
    /\ \A i \in DOMAIN rlog :
          rlog[i].error # "None" =>
              /\ rlog[i].raises = None
              /\ rlog[i].persisted
              /\ "error" \in Range(rlog[i].logged)
              /\ \E id \in DOMAIN response_state : response_state[id].request >= rlog[i].request

\* C20: every invocation of the engine-response callback stores its record
\* under a response id of its own: after k invocations engineResponses holds
\* k entries, one per invocation, none overwritten.
C20_ResponseIdsUnique ==
    /\ Cardinality(DOMAIN response_state) = rcalls
    /\ \A k \in 1..rcalls : \E id \in DOMAIN response_state : response_state[id].request = k

(***************************************************************************)
(* Claims about the event loop, checked under SpecLoop.                    *)
(***************************************************************************)
\* C21: the sleep between poll cycles is a suspension point that does not
\* block the other contexts: while the poll loop sleeps, every other
\* coroutine of the process that is ready can take a step.
C21_SleepDoesNotBlock ==
    \A h \in Contexts :
        (ppc = "sleeping" /\ hpc[h] = "ready") => CanStep(h)

====
